---- MODULE Spec2Model ----
(***************************************************************************)
(* Model of the PDF content-extraction pipeline of the UBRI repository:    *)
(* the chunk builder (_create_text_chunks / split_into_chunks), the text   *)
(* cleaner (_clean_text / clean_text) and the section segmenter            *)
(* (_extract_sections / extract_sections).                                 *)
(*                                                                         *)
(* A Python string is a sequence of one-character strings; characters with *)
(* no printable form are written as tokens ("NUL", "VT", "FF", ...).       *)
(* Python indices are 0-based, TLA+ sequences 1-based: text[i] in the      *)
(* source is text[i + 1] here.                                             *)
(***************************************************************************)
EXTENDS Integers, Sequences, FiniteSets, TLC

VARIABLES
    variant,      \* which chunker runs: "_create_text_chunks" or "split_into_chunks"
    text,         \* argument text of the chunker
    chunk_size,   \* argument chunk_size
    overlap,      \* argument overlap
    pc,           \* position of the chunker: "call", "loop", "returned", "raised"
    start,        \* local start
    chunk_index,  \* local chunk_index
    chunks,       \* local list chunks; the returned list once pc = "returned"
    last_end,     \* value of the local end in the latest loop iteration
    iters,        \* number of loop iterations executed so far
    raw,          \* argument text of the cleaner
    cleaned,      \* _clean_text(raw)
    recleaned,    \* _clean_text(_clean_text(raw))
    cpc,          \* position of the cleaner run: "call", "once", "twice"
    svariant,     \* which segmenter runs: "_extract_sections" or "extract_sections"
    stext,        \* argument text of the segmenter
    sections,     \* the returned dict, as the sequence of its items in insertion order
    spc,          \* position of the segmenter: "call", "returned"
    doc,          \* the PDF file extract_pdf_content is called on
    result,       \* value returned by extract_pdf_content
    epc,          \* position of extract_pdf_content: "call", "returned"
    files,        \* the PDF files on disk: path -> bytes
    fs,           \* the GridFS bucket: the stored blobs, in order of creation
    store_ret,    \* value returned by the latest store_pdf_file call
    verification, \* value returned by the latest verify_file_integrity call
    calls,        \* number of store operations executed so far
    damaged,      \* ids of the blobs whose stored bytes have decayed since they were put
    retrieved,    \* the latest retrieve_pdf_file call: its argument and the value returned
    workers,      \* the parallel workers inside store_pdf_file: position, path, return value
    papers,       \* the papers loaded by process_papers_from_json
    paper_i,      \* number of papers the loop of process_papers_from_json has handled
    processed_papers,        \* local list processed_papers
    successful_extractions,  \* local counter successful_extractions
    failed_extractions,      \* local counter failed_extractions
    output_file,  \* the list written to papers_with_content.json
    bpc,          \* position of process_papers_from_json: "loop", "written"
    hvariant,     \* which extractor runs: "simple" or "full" (PDFContentExtractor)
    hdoc,         \* the PDF file whose handles are followed
    handles,      \* the document-parsing handles that are open
    hpc           \* the next step of extract_pdf_content: "text", "figures", "tables",
                  \* "metadata", "returned"

chunkVars == <<variant, text, chunk_size, overlap, pc, start, chunk_index,
               chunks, last_end, iters>>
cleanVars == <<raw, cleaned, recleaned, cpc>>
segVars == <<svariant, stext, sections, spc>>

extractVars == <<doc, result, epc>>
storeVars == <<files, fs, store_ret, verification, calls, damaged, retrieved,
               workers>>
batchVars == <<papers, paper_i, processed_papers, successful_extractions,
               failed_extractions, output_file, bpc>>
handleVars == <<hvariant, hdoc, handles, hpc>>
ioVars == <<extractVars, storeVars, batchVars, handleVars>>

vars == <<chunkVars, cleanVars, segVars, ioVars>>

----------------------------------------------------------------------------
(* Bounds of the model *)

MaxLen == 5        \* longest text of the chunker specification
MaxChunk == 3      \* largest chunk_size argument
MaxOverlap == 4    \* largest overlap argument
MaxIter == 8       \* loop iterations after which a run is cut off
MaxCleanLen == 5   \* longest text of the cleaner specification
MaxLines == 3      \* most lines of a free-form text of the segmenter specification
MaxBody == 3       \* most body lines after a heading of a scenario document
MaxPages == 2      \* most pages of a document
MaxFiles == 2      \* number of paths on disk
MaxCalls == 2      \* most store_pdf_file calls of a behaviour
MaxPapers == 3     \* most papers of an index file
MaxWorkers == 2    \* number of parallel workers
ScenarioLen == 2500 \* length of the text of the 2500-character scenario
Near == 3          \* how far a scenario terminator may sit from 990 / 1980

(* Program constants *)

DefaultChunkSize == 1000
DefaultOverlap == 200
LookBack == 100

----------------------------------------------------------------------------
(* Python string primitives used by the chunker *)

Max(S) == CHOOSE m \in S : \A k \in S : k <= m
Min(S) == CHOOSE m \in S : \A k \in S : m <= k

\* characters for which str.isspace() is true (str.strip(), str.split())
Whitespace == {" ", "\t", "\n", "\r", "VT", "FF"}

\* the characters of '.!?'
Terminators == {".", "!", "?"}

\* s[a:b] with Python's treatment of negative and out-of-range bounds
PyClamp(k, n) == IF k < 0 THEN (IF k + n < 0 THEN 0 ELSE k + n)
                 ELSE (IF k > n THEN n ELSE k)
PySlice(s, a, b) == SubSeq(s, PyClamp(a, Len(s)) + 1, PyClamp(b, Len(s)))

\* s[i] is defined for -len(s) <= i < len(s); otherwise IndexError
PyIndexOk(s, i) == (0 - Len(s)) <= i /\ i < Len(s)
PyIndex(s, i) == IF i < 0 THEN s[i + Len(s) + 1] ELSE s[i + 1]

\* s.strip()
Strip(s) ==
    IF \A i \in 1..Len(s) : s[i] \in Whitespace
    THEN <<>>
    ELSE LET first == CHOOSE i \in 1..Len(s) :
                          /\ s[i] \notin Whitespace
                          /\ \A j \in 1..(i - 1) : s[j] \in Whitespace
             last  == CHOOSE i \in 1..Len(s) :
                          /\ s[i] \notin Whitespace
                          /\ \A j \in (i + 1)..Len(s) : s[j] \in Whitespace
         IN  SubSeq(s, first, last)

\* len(s.split())
WordCount(s) ==
    Cardinality({i \in 1..Len(s) :
                    /\ s[i] \notin Whitespace
                    /\ (i = 1 \/ s[i - 1] \in Whitespace)})

----------------------------------------------------------------------------
(* The chunker *)

Variants == {"_create_text_chunks", "split_into_chunks"}

\* the early-return test: "not text or len(text) <= chunk_size" in
\* _create_text_chunks, "len(text) <= chunk_size" in split_into_chunks
ShortTextMutant(v, t, cs) == Len(t) < cs
ShortText(v, t, cs) ==
    IF v = "_create_text_chunks"
    THEN t = <<>> \/ Len(t) <= cs
    ELSE Len(t) <= cs

\* one element of the returned list: a dict in _create_text_chunks, the bare
\* text in split_into_chunks
MkChunk(v, idx, ctext, s, e) ==
    IF v = "_create_text_chunks"
    THEN [chunk_id    |-> "chunk_" \o ToString(idx),
          text        |-> ctext,
          start_char  |-> s,
          end_char    |-> e,
          word_count  |-> WordCount(ctext),
          chunk_index |-> idx]
    ELSE ctext

\* the text of an element of the returned list
ChunkText(v, c) == IF v = "_create_text_chunks" THEN c.text ELSE c

\* the indices range(end, max(start + chunk_size - 100, start), -1) visits
ScanRangeMutant(s, cs) == (s + 1)..(s + cs - 1)
ScanRange(s, cs) ==
    LET lo == IF s + cs - LookBack > s THEN s + cs - LookBack ELSE s
    IN  {i \in (lo + 1)..(s + cs) : TRUE}

\* "Try to break at sentence boundary": the value of end after the scan, or
\* an IndexError when the scan reads text[i] below -len(text)
SnapEnd(t, s, cs) ==
    LET end0 == s + cs
        rng  == IF end0 < Len(t) THEN ScanRange(s, cs) ELSE {}
        hits == {i \in rng : PyIndexOk(t, i) /\ PyIndex(t, i) \in Terminators}
        bad  == {i \in rng : ~PyIndexOk(t, i)}
    IN  IF hits # {} THEN [err |-> FALSE, end |-> Max(hits) + 1]
        ELSE IF bad # {} THEN [err |-> TRUE, end |-> end0]
        ELSE [err |-> FALSE, end |-> end0]

\* "if chunk_text:" - the slice is appended only when it is non-empty
EmitChunkMutant(ctext) == TRUE
EmitChunk(ctext) == ctext # <<>>

\* chunk_index after the iteration: incremented only when a chunk was appended
NextIndexMutant(idx, emitted) == idx + 1
NextIndex(idx, emitted) == IF emitted THEN idx + 1 ELSE idx

\* entry of the chunker: the early return, or the initialisation of the loop
ChunkCall ==
    /\ pc = "call"
    /\ IF ShortText(variant, text, chunk_size)
       THEN /\ chunks' = <<MkChunk(variant, 1, text, 0, Len(text))>>
            /\ pc' = "returned"
       ELSE /\ chunks' = <<>>
            /\ pc' = IF 0 < Len(text) THEN "loop" ELSE "returned"
    /\ start' = 0
    /\ chunk_index' = 1
    /\ UNCHANGED <<variant, text, chunk_size, overlap, last_end, iters>>
    /\ UNCHANGED <<cleanVars, segVars>>
    /\ UNCHANGED ioVars

\* one iteration of "while start < len(text)", up to and including the break
ChunkLoop ==
    /\ pc = "loop"
    /\ iters < MaxIter
    /\ start < Len(text)
    /\ LET snap  == SnapEnd(text, start, chunk_size)
           end   == snap.end
           ctext == Strip(PySlice(text, start, end))
           emit  == EmitChunk(ctext)
       IN  IF snap.err
           THEN /\ pc' = "raised"
                /\ UNCHANGED <<start, chunk_index, chunks, last_end>>
           ELSE /\ chunks' = IF emit
                             THEN Append(chunks,
                                      MkChunk(variant, chunk_index, ctext, start, end))
                             ELSE chunks
                /\ chunk_index' = NextIndex(chunk_index, emit)
                /\ start' = end - overlap
                /\ last_end' = end
                /\ pc' = IF end - overlap >= Len(text) THEN "returned" ELSE "loop"
    /\ iters' = iters + 1
    /\ UNCHANGED <<variant, text, chunk_size, overlap>>
    /\ UNCHANGED <<cleanVars, segVars>>
    /\ UNCHANGED ioVars

----------------------------------------------------------------------------
(* The cleaner *)

RECURSIVE SplitWords(_)
\* s.split(): the maximal runs of non-whitespace characters
SplitWords(s) ==
    IF s = <<>> THEN <<>>
    ELSE IF Head(s) \in Whitespace THEN SplitWords(Tail(s))
    ELSE LET n == IF \A i \in 1..Len(s) : s[i] \notin Whitespace
                  THEN Len(s)
                  ELSE (CHOOSE i \in 1..Len(s) :
                            /\ s[i] \in Whitespace
                            /\ \A j \in 1..(i - 1) : s[j] \notin Whitespace) - 1
         IN  <<SubSeq(s, 1, n)>> \o SplitWords(SubSeq(s, n + 1, Len(s)))

RECURSIVE Join(_, _)
\* sep.join(parts)
Join(parts, sep) ==
    IF parts = <<>> THEN <<>>
    ELSE IF Len(parts) = 1 THEN parts[1]
    ELSE parts[1] \o sep \o Join(Tail(parts), sep)

RECURSIVE Replace(_, _, _)
\* s.replace(c, r) for a single character c and a replacement string r
Replace(s, c, r) ==
    IF s = <<>> THEN <<>>
    ELSE (IF Head(s) = c THEN r ELSE <<Head(s)>>) \o Replace(Tail(s), c, r)

\* "Remove excessive whitespace": ' '.join(text.split())
CollapseWhitespace(s) == Join(SplitWords(s), <<" ">>)

\* "Remove common PDF artifacts"
RemoveArtifacts(s) ==
    Replace(Replace(Replace(s, "NUL", <<>>), "FF", <<" ">>), "VT", <<" ">>)

\* "Normalize quotes and dashes": both quote replacements of the source map
\* the ASCII quotation mark to itself; the dashes become '-'
NormalizeQuotesDashes(s) ==
    Replace(Replace(Replace(Replace(s, "\"", <<"\"">>), "\"", <<"\"">>),
                    "ENDASH", <<"-">>), "EMDASH", <<"-">>)

\* _clean_text / clean_text
CleanText(s) ==
    IF s = <<>> THEN <<>>
    ELSE Strip(NormalizeQuotesDashes(RemoveArtifacts(CollapseWhitespace(s))))

\* the cleaner is applied to the raw text
CleanOnce ==
    /\ cpc = "call"
    /\ cleaned' = CleanText(raw)
    /\ cpc' = "once"
    /\ UNCHANGED <<raw, recleaned>>
    /\ UNCHANGED <<chunkVars, segVars>>
    /\ UNCHANGED ioVars

\* the cleaner is applied to its own result
CleanTwice ==
    /\ cpc = "once"
    /\ recleaned' = CleanText(cleaned)
    /\ cpc' = "twice"
    /\ UNCHANGED <<raw, cleaned>>
    /\ UNCHANGED <<chunkVars, segVars>>
    /\ UNCHANGED ioVars

----------------------------------------------------------------------------
(* The section segmenter *)

SegVariants == {"_extract_sections", "extract_sections"}

\* section_patterns, in declaration order; extract_sections of PDFProcessor
\* declares the same entries without 'appendix'
SectionPatterns ==
    <<
      [name |-> "abstract",
       pattern |-> <<"(", "?", "i", ")", "(", "a", "b", "s", "t", "r", "a", "c", "t", "|", "s", "u", "m", "m", "a", "r", "y", ")">>],
      [name |-> "introduction",
       pattern |-> <<"(", "?", "i", ")", "(", "i", "n", "t", "r", "o", "d", "u", "c", "t", "i", "o", "n", "|", "i", "n", "t", "r", "o", ")">>],
      [name |-> "methods",
       pattern |-> <<"(", "?", "i", ")", "(", "m", "e", "t", "h", "o", "d", "s", "|", "m", "e", "t", "h", "o", "d", "o", "l", "o", "g", "y", "|", "m", "a", "t", "e", "r", "i", "a", "l", "s", " ", "a", "n", "d", " ", "m", "e", "t", "h", "o", "d", "s", ")">>],
      [name |-> "results",
       pattern |-> <<"(", "?", "i", ")", "(", "r", "e", "s", "u", "l", "t", "s", "|", "f", "i", "n", "d", "i", "n", "g", "s", ")">>],
      [name |-> "discussion",
       pattern |-> <<"(", "?", "i", ")", "(", "d", "i", "s", "c", "u", "s", "s", "i", "o", "n", "|", "c", "o", "n", "c", "l", "u", "s", "i", "o", "n", ")">>],
      [name |-> "references",
       pattern |-> <<"(", "?", "i", ")", "(", "r", "e", "f", "e", "r", "e", "n", "c", "e", "s", "|", "b", "i", "b", "l", "i", "o", "g", "r", "a", "p", "h", "y", "|", "c", "i", "t", "a", "t", "i", "o", "n", "s", ")">>],
      [name |-> "appendix",
       pattern |-> <<"(", "?", "i", ")", "(", "a", "p", "p", "e", "n", "d", "i", "x", "|", "a", "p", "p", "e", "n", "d", "i", "c", "e", "s", ")">>]
    >>

Catalog(v) ==
    IF v = "_extract_sections" THEN SectionPatterns
    ELSE SubSeq(SectionPatterns, 1, Len(SectionPatterns) - 1)

RECURSIVE SplitOn(_, _)
\* s.split(c) for a single character c
SplitOn(s, c) ==
    IF \A i \in 1..Len(s) : s[i] # c THEN <<s>>
    ELSE LET n == CHOOSE i \in 1..Len(s) :
                      s[i] = c /\ \A j \in 1..(i - 1) : s[j] # c
         IN  <<SubSeq(s, 1, n - 1)>> \o SplitOn(SubSeq(s, n + 1, Len(s)), c)

UpperCase == <<"A", "B", "C", "D", "E", "F", "G", "H", "I", "J", "K", "L", "M",
               "N", "O", "P", "Q", "R", "S", "T", "U", "V", "W", "X", "Y", "Z">>
LowerCase == <<"a", "b", "c", "d", "e", "f", "g", "h", "i", "j", "k", "l", "m",
               "n", "o", "p", "q", "r", "s", "t", "u", "v", "w", "x", "y", "z">>

\* s.lower()
Lower(s) ==
    [i \in 1..Len(s) |->
        IF \E k \in 1..26 : UpperCase[k] = s[i]
        THEN LowerCase[CHOOSE k \in 1..26 : UpperCase[k] = s[i]]
        ELSE s[i]]

\* "needle in hay" for strings
Contains(hay, needle) ==
    \E i \in 0..(Len(hay) - Len(needle)) :
        SubSeq(hay, i + 1, i + Len(needle)) = needle

\* any(keyword in line_lower for keyword in pattern.split('|'))
PatternMatches(pattern, line_lower) ==
    LET keywords == SplitOn(pattern, "|")
    IN  \E k \in 1..Len(keywords) : Contains(line_lower, keywords[k])

\* the dict as the sequence of its items in insertion order
DictHas(d, k) == \E i \in 1..Len(d) : d[i].name = k
DictGet(d, k) == d[CHOOSE i \in 1..Len(d) : d[i].name = k].value
DictSet(d, k, v) ==
    IF DictHas(d, k)
    THEN [i \in 1..Len(d) |-> IF d[i].name = k THEN [name |-> k, value |-> v]
                              ELSE d[i]]
    ELSE Append(d, [name |-> k, value |-> v])

\* "if current_content: sections[current_section] = '\n'.join(...).strip()"
Flush(d, cur, content) ==
    IF content = <<>> THEN d
    ELSE DictSet(d, cur, Strip(Join(content, <<"\n">>)))

RECURSIVE ScanLines(_, _, _, _, _)
\* the loop over lines, followed by "Add the last section"
ScanLines(cat, lines, cur, content, d) ==
    IF lines = <<>> THEN Flush(d, cur, content)
    ELSE LET line       == Head(lines)
             line_lower == Strip(Lower(line))
             matching   == {k \in 1..Len(cat) :
                               PatternMatches(cat[k].pattern, line_lower)}
         IN  IF matching # {}
             THEN ScanLines(cat, Tail(lines), cat[Min(matching)].name, <<>>,
                            Flush(d, cur, content))
             ELSE ScanLines(cat, Tail(lines), cur, Append(content, line), d)

\* _extract_sections / extract_sections
ExtractSections(v, t) ==
    ScanLines(Catalog(v), SplitOn(t, "\n"), "unknown", <<>>, <<>>)

\* the segmenter is applied to the text
SegmentCall ==
    /\ spc = "call"
    /\ sections' = ExtractSections(svariant, stext)
    /\ spc' = "returned"
    /\ UNCHANGED <<svariant, stext>>
    /\ UNCHANGED <<chunkVars, cleanVars>>
    /\ UNCHANGED ioVars

----------------------------------------------------------------------------
(* The chunker as a function, as extract_pdf_content calls it *)

RECURSIVE ChunkRun(_, _, _, _, _, _, _, _)
\* the while loop from the iteration that begins with locals s, idx, acc;
\* fuel bounds the number of iterations followed
ChunkRun(v, t, cs, ov, s, idx, acc, fuel) ==
    IF fuel = 0 THEN [outcome |-> "running", chunks |-> acc]
    ELSE LET snap  == SnapEnd(t, s, cs)
             end   == snap.end
             ctext == Strip(PySlice(t, s, end))
             emit  == EmitChunk(ctext)
             acc2  == IF emit THEN Append(acc, MkChunk(v, idx, ctext, s, end))
                      ELSE acc
         IN  IF snap.err THEN [outcome |-> "raised", chunks |-> acc]
             ELSE IF end - ov >= Len(t) THEN [outcome |-> "returned", chunks |-> acc2]
             ELSE ChunkRun(v, t, cs, ov, end - ov, NextIndex(idx, emit), acc2,
                           fuel - 1)

\* _create_text_chunks(text) with the default chunk_size and overlap
CreateTextChunksMutant(t) ==
    ChunkRun("_create_text_chunks", t, DefaultChunkSize, DefaultOverlap, 0, 1, <<>>, MaxIter)
CreateTextChunks(t) ==
    IF ShortText("_create_text_chunks", t, DefaultChunkSize)
    THEN [outcome |-> "returned",
          chunks |-> <<MkChunk("_create_text_chunks", 1, t, 0, Len(t))>>]
    ELSE ChunkRun("_create_text_chunks", t, DefaultChunkSize, DefaultOverlap,
                  0, 1, <<>>, MaxIter)

----------------------------------------------------------------------------
(* extract_pdf_content of SimplePDFContentExtractor                        *)
(*                                                                         *)
(* A PDF file is [state, pages]: state "missing" (no such file), "corrupt" *)
(* (pdfplumber.open raises), "vanishes" (removed right after the existence *)
(* test, so that open and stat raise) or "ok".  A page is                  *)
(* [text_kind, text, tables_kind, tables]: extract_text() returns text     *)
(* ("text"), returns None ("none") or raises ("raises"); extract_tables()  *)
(* returns tables ("ok") or raises ("raises").  A table is a list of rows  *)
(* of cells; a cell is a string or None.                                   *)

\* None, and the test "x is None"
NoneValue == <<>>
IsNone(x) == DOMAIN x = {}

\* the cell None
NoneCell == <<"NONE">>

\* "if page_text:"
PageTruthy(page) == page.text_kind = "text" /\ page.text # <<>>

\* the first page on which extraction raises, Len(pages) + 1 if none does
TextStop(pages) ==
    IF \E k \in 1..Len(pages) : pages[k].text_kind = "raises"
    THEN Min({k \in 1..Len(pages) : pages[k].text_kind = "raises"})
    ELSE Len(pages) + 1
TablesStop(pages) ==
    IF \E k \in 1..Len(pages) : pages[k].tables_kind = "raises"
    THEN Min({k \in 1..Len(pages) : pages[k].tables_kind = "raises"})
    ELSE Len(pages) + 1

\* page_data of page k (1-based)
PageData(k, page) ==
    [page_number |-> k,
     text        |-> Strip(page.text),
     word_count  |-> WordCount(page.text),
     char_count  |-> Len(page.text)]

RECURSIVE PagesText(_, _, _)
\* text_content['pages_text'] after the pages k .. stop - 1
PagesText(pages, k, stop) ==
    IF k >= stop THEN <<>>
    ELSE (IF PageTruthy(pages[k]) THEN <<PageData(k, pages[k])>> ELSE <<>>)
             \o PagesText(pages, k + 1, stop)

RECURSIVE RawFullText(_, _, _)
\* text_content['full_text'] after the pages k .. stop - 1
RawFullText(pages, k, stop) ==
    IF k >= stop THEN <<>>
    ELSE (IF PageTruthy(pages[k]) THEN pages[k].text \o <<"\n">> ELSE <<>>)
             \o RawFullText(pages, k + 1, stop)

\* _extract_text_content; an exception of open or of a page leaves the
\* function through "except Exception", before sections and cleaning
\* (page_summaries, derived from the same pages, are left out)
ExtractTextContent(d) ==
    IF d.state # "ok"
    THEN [full_text |-> <<>>, pages_text |-> <<>>, sections |-> <<>>]
    ELSE LET stop == TextStop(d.pages)
             rawt == RawFullText(d.pages, 1, stop)
         IN  IF stop <= Len(d.pages)
             THEN [full_text  |-> rawt,
                   pages_text |-> PagesText(d.pages, 1, stop),
                   sections   |-> <<>>]
             ELSE [full_text  |-> CleanText(rawt),
                   pages_text |-> PagesText(d.pages, 1, stop),
                   sections   |-> ExtractSections("_extract_sections", rawt)]

\* truth value of a cell: None and '' are false
CellTruthy(c) == c # NoneCell /\ c # <<>>

\* "if table and any(any(cell for cell in row) for row in table)"
TableRetained(t) ==
    /\ t # <<>>
    /\ \E r \in 1..Len(t) : \E c \in 1..Len(t[r]) : CellTruthy(t[r][c])

\* "str(cell).strip() if cell else ''" for every cell
CleanedTable(t) ==
    [r \in 1..Len(t) |->
        [c \in 1..Len(t[r]) |->
            IF CellTruthy(t[r][c]) THEN Strip(t[r][c]) ELSE <<>>]]

\* table_data of table i (1-based) of page k (1-based)
TableData(k, i, t) ==
    [table_id    |-> "table_" \o ToString(k) \o "_" \o ToString(i),
     page_number |-> k,
     table_index |-> i,
     data        |-> CleanedTable(t),
     rows        |-> Len(t),
     columns     |-> IF t # <<>> THEN Len(t[1]) ELSE 0]

\* the table records of page k
PageTables(k, page) ==
    LET kept == SelectSeq([i \in 1..Len(page.tables) |-> i],
                          LAMBDA i : TableRetained(page.tables[i]))
    IN  [j \in 1..Len(kept) |-> TableData(k, kept[j], page.tables[kept[j]])]

RECURSIVE TablesOfPages(_, _, _)
\* the list tables after the pages k .. stop - 1
TablesOfPages(pages, k, stop) ==
    IF k >= stop THEN <<>>
    ELSE PageTables(k, pages[k]) \o TablesOfPages(pages, k + 1, stop)

\* _extract_tables; an exception of open or of a page leaves the loop through
\* "except Exception" and the tables appended so far are returned
ExtractTables(d) ==
    IF d.state # "ok" THEN <<>>
    ELSE TablesOfPages(d.pages, 1, TablesStop(d.pages))

\* whether an exception of extract_text() / extract_tables() leaves
\* _extract_text_content / _extract_tables: "except Exception" catches it
PageFailureEscapesMutant(d) ==
    d.state = "ok" /\ d.pages # <<>> /\ d.pages[Len(d.pages)].tables_kind = "raises"
PageFailureEscapes(d) == FALSE

\* _extract_basic_metadata, for a file without document info; stat() is
\* called outside the try block and raises when the file is gone
StatRaises(d) == d.state = "vanishes"
BasicMetadata(d) ==
    IF d.state = "ok"
    THEN [file_size |-> "st_size", file_modified |-> "st_mtime",
          num_pages |-> Len(d.pages)]
    ELSE [file_size |-> "st_size", file_modified |-> "st_mtime"]

\* dict.get(key, default)
GetOr(r, key, default) == IF key \in DOMAIN r THEN r[key] ELSE default

\* the record built in the try block
SuccessRecord(d, tc, tb, md, ch) ==
    [file_path            |-> "pdf_path",
     file_name            |-> "pdf_path.name",
     file_size            |-> "st_size",
     extraction_timestamp |-> "utcnow",
     metadata             |-> md,
     text_content         |-> tc,
     tables               |-> tb,
     text_chunks          |-> ch,
     summary |-> [total_pages  |-> GetOr(md, "num_pages", 0),
                  total_tables |-> Len(tb),
                  total_chunks |-> Len(ch),
                  total_words  |-> WordCount(tc.full_text),
                  extraction_success |-> TRUE]]

\* the record built in the except block
FailureRecord ==
    [file_path            |-> "pdf_path",
     file_name            |-> "pdf_path.name",
     extraction_timestamp |-> "utcnow",
     extraction_success   |-> FALSE,
     error                |-> "str(e)"]

\* extract_pdf_content
ExtractPdfContent(d) ==
    IF d.state = "missing" THEN NoneValue
    ELSE LET tc == ExtractTextContent(d)
             tb == ExtractTables(d)
             ch == CreateTextChunks(tc.full_text)
         IN  IF PageFailureEscapes(d) \/ StatRaises(d) \/ ch.outcome = "raised"
             THEN FailureRecord
             ELSE SuccessRecord(d, tc, tb, BasicMetadata(d), ch.chunks)

\* extract_pdf_content is applied to the file
ExtractCall ==
    /\ epc = "call"
    /\ result' = ExtractPdfContent(doc)
    /\ epc' = "returned"
    /\ UNCHANGED <<doc, storeVars, batchVars, handleVars>>
    /\ UNCHANGED <<chunkVars, cleanVars, segVars>>

----------------------------------------------------------------------------
(* PDFGridFSStorage.store_pdf_file and PDFRetriever.verify_file_integrity  *)
(*                                                                         *)
(* files[p] is the file at path p: [exists, bytes].  A blob of the bucket  *)
(* is [_id, filename, data, metadata].  An ObjectId is [type, n]; the      *)
(* string str(id) is a value of another type that names the same n.        *)

\* _calculate_file_hash / hashlib.sha256(...).hexdigest(): a digest that
\* differs for different bytes
Sha256(bytes) == <<"sha256:">> \o bytes

ObjectId(n) == [type |-> "ObjectId", n |-> n]
\* str(file_id)
Str(id) == [type |-> "str", n |-> id.n]

\* {**base, **metadata}: the keys of metadata replace those of base
Merge(base, metadata) ==
    [k \in DOMAIN base \cup DOMAIN metadata |->
        IF k \in DOMAIN metadata THEN metadata[k] ELSE base[k]]

\* the indices of the blobs matching {"metadata.file_hash": file_hash}
FindByHash(bucket, file_hash) ==
    {i \in 1..Len(bucket) : bucket[i].metadata.file_hash = file_hash}

\* file_metadata of store_pdf_file
FileMetadata(p, file_hash, metadata) ==
    Merge([original_filename |-> p, file_size |-> Len(files[p].bytes),
           file_hash |-> file_hash, content_type |-> "application/pdf"],
          metadata)

\* fs.put(pdf_file, filename=..., metadata=...)
Put(bucket, p, file_metadata) ==
    Append(bucket, [_id      |-> ObjectId(Len(bucket) + 1),
                    filename |-> p,
                    data     |-> files[p].bytes,
                    metadata |-> file_metadata])

\* one call store_pdf_file(p, metadata), from start to return
StorePdfFile(p, metadata) ==
    /\ calls < MaxCalls
    /\ calls' = calls + 1
    /\ IF ~files[p].exists
       THEN store_ret' = NoneValue /\ fs' = fs
       ELSE LET file_hash == Sha256(files[p].bytes)
                existing  == FindByHash(fs, file_hash)
            IN  IF existing # {}
                THEN /\ store_ret' = Str(fs[Min(existing)]._id)
                     /\ fs' = fs
                ELSE /\ fs' = Put(fs, p, FileMetadata(p, file_hash, metadata))
                     /\ store_ret' = Str(ObjectId(Len(fs) + 1))
    /\ UNCHANGED <<files, verification, damaged, retrieved, workers>>
    /\ UNCHANGED <<extractVars, batchVars, handleVars, chunkVars, cleanVars, segVars>>

\* the bytes of a stored blob decay in the database (once per blob)
BlobDecays(i, bytes) ==
    /\ i \in 1..Len(fs)
    /\ fs[i]._id \notin damaged
    /\ bytes # fs[i].data
    /\ fs' = [fs EXCEPT ![i].data = bytes]
    /\ damaged' = damaged \cup {fs[i]._id}
    /\ UNCHANGED <<files, store_ret, verification, calls, retrieved, workers>>
    /\ UNCHANGED <<extractVars, batchVars, handleVars, chunkVars, cleanVars, segVars>>

\* the indices of the blobs fs.get(file_id) finds
GetById(bucket, file_id) == {i \in 1..Len(bucket) : bucket[i]._id = file_id}

\* None for a missing key of the metadata
NoneDigest == <<"None">>

\* "stored_hash == current_hash if stored_hash else None"
HashMatchMutant(stored_hash, current_hash) == "True"
HashMatch(stored_hash, current_hash) ==
    IF stored_hash # <<>> /\ stored_hash # NoneDigest
    THEN (IF stored_hash = current_hash THEN "True" ELSE "False")
    ELSE "None"

\* the dict verification, for a call without original_path
Verification(file_id, blob) ==
    LET stored_hash  == GetOr(blob.metadata, "file_hash", NoneDigest)
        current_hash == Sha256(blob.data)
    IN  [file_id      |-> file_id,
         filename     |-> blob.filename,
         stored_size  |-> Len(blob.data),
         stored_hash  |-> stored_hash,
         current_hash |-> current_hash,
         hash_match   |-> HashMatch(stored_hash, current_hash)]

\* one call verify_file_integrity(file_id); fs.get raises for an id that no
\* blob has, and the exception is turned into {'error': ...}
VerifyFileIntegrity(file_id) ==
    /\ verification' =
           IF GetById(fs, file_id) = {} THEN [error |-> "str(e)"]
           ELSE Verification(file_id, fs[Min(GetById(fs, file_id))])
    /\ UNCHANGED <<files, fs, store_ret, calls, damaged, retrieved, workers>>
    /\ UNCHANGED <<extractVars, batchVars, handleVars, chunkVars, cleanVars, segVars>>

\* None, where bytes are expected
NoneBytes == <<"None">>

\* the value retrieve_pdf_file(file_id) returns, for a call without
\* output_path: the bytes read, or None when fs.get raises
RetrievedContent(bucket, file_id) ==
    IF GetById(bucket, file_id) = {} THEN NoneBytes
    ELSE bucket[Min(GetById(bucket, file_id))].data

\* one call retrieve_pdf_file(file_id)
RetrievePdfFile(file_id) ==
    /\ retrieved' = [file_id |-> file_id, content |-> RetrievedContent(fs, file_id)]
    /\ UNCHANGED <<files, fs, store_ret, verification, calls, damaged, workers>>
    /\ UNCHANGED <<extractVars, batchVars, handleVars, chunkVars, cleanVars, segVars>>

\* the metadata store_papers_with_pdfs passes
PlainMetadata == [paper_id |-> "p"]

\* worker w runs store_pdf_file up to and including the lookup
\* fs.find_one({"metadata.file_hash": file_hash})
WorkerLookup(w) ==
    /\ workers[w].pc = "start"
    /\ LET p        == workers[w].path
           existing == FindByHash(fs, Sha256(files[p].bytes))
       IN  workers' = [workers EXCEPT ![w] =
               IF ~files[p].exists
               THEN [pc |-> "done", path |-> p, ret |-> NoneValue]
               ELSE IF existing # {}
               THEN [pc |-> "done", path |-> p, ret |-> Str(fs[Min(existing)]._id)]
               ELSE [pc |-> "put", path |-> p, ret |-> NoneValue]]
    /\ UNCHANGED <<files, fs, store_ret, verification, calls, damaged, retrieved>>
    /\ UNCHANGED <<extractVars, batchVars, handleVars, chunkVars, cleanVars, segVars>>

\* worker w, whose lookup found nothing, runs fs.put and returns the new id
WorkerPut(w) ==
    /\ workers[w].pc = "put"
    /\ LET p == workers[w].path
       IN  /\ fs' = Put(fs, p, FileMetadata(p, Sha256(files[p].bytes), PlainMetadata))
           /\ workers' = [workers EXCEPT ![w] =
                  [pc |-> "done", path |-> p, ret |-> Str(ObjectId(Len(fs) + 1))]]
    /\ UNCHANGED <<files, store_ret, verification, calls, damaged, retrieved>>
    /\ UNCHANGED <<extractVars, batchVars, handleVars, chunkVars, cleanVars, segVars>>

----------------------------------------------------------------------------
(* SimplePDFContentExtractor.process_papers_from_json                      *)
(*                                                                         *)
(* A paper of the index is [title, file_found, file_path]; file_path is    *)
(* modelled by the file found there.                                       *)

\* "paper.get('file_found') and paper.get('file_path')"
HasPdf(paper) == paper.file_found

\* "content and content.get('extraction_success', False)"
ContentExtracted(content) ==
    ~IsNone(content) /\ GetOr(content, "extraction_success", FALSE)

\* paper_with_content: {**paper, 'pdf_content': ..., 'content_extracted': ...}
PaperWithContent(paper, content, extracted) ==
    [title             |-> paper.title,
     file_found        |-> paper.file_found,
     file_path         |-> paper.file_path,
     pdf_content       |-> content,
     content_extracted |-> extracted,
     content_extraction_timestamp |-> "utcnow"]

\* processed_papers.append(paper_with_content)
AppendPaperMutant(list, p) == IF IsNone(p.pdf_content) THEN list ELSE Append(list, p)
AppendPaper(list, p) == Append(list, p)

\* one iteration of "for i, paper in enumerate(papers)"
ProcessPaper ==
    /\ bpc = "loop"
    /\ paper_i < Len(papers)
    /\ LET paper   == papers[paper_i + 1]
           content == ExtractPdfContent(paper.file_path)
       IN  IF HasPdf(paper)
           THEN IF ContentExtracted(content)
                THEN /\ processed_papers' =
                            AppendPaper(processed_papers,
                                        PaperWithContent(paper, content, TRUE))
                     /\ successful_extractions' = successful_extractions + 1
                     /\ UNCHANGED failed_extractions
                ELSE /\ processed_papers' =
                            AppendPaper(processed_papers,
                                        PaperWithContent(paper, content, FALSE))
                     /\ failed_extractions' = failed_extractions + 1
                     /\ UNCHANGED successful_extractions
           ELSE /\ processed_papers' =
                       AppendPaper(processed_papers,
                                   PaperWithContent(paper, NoneValue, FALSE))
                /\ UNCHANGED <<successful_extractions, failed_extractions>>
    /\ paper_i' = paper_i + 1
    /\ UNCHANGED <<papers, output_file, bpc>>
    /\ UNCHANGED <<extractVars, storeVars, handleVars, chunkVars, cleanVars, segVars>>

\* after the loop: json.dump(processed_papers, f)
WriteOutput ==
    /\ bpc = "loop"
    /\ paper_i = Len(papers)
    /\ output_file' = processed_papers
    /\ bpc' = "written"
    /\ UNCHANGED <<papers, paper_i, processed_papers, successful_extractions,
                   failed_extractions>>
    /\ UNCHANGED <<extractVars, storeVars, handleVars, chunkVars, cleanVars, segVars>>

----------------------------------------------------------------------------
(* The document-parsing handles of extract_pdf_content                     *)
(*                                                                         *)
(* The file is [state, images, stat]: state "ok" or "corrupt" (open        *)
(* raises); images[k] tells whether page.get_images() of page k returns    *)
(* ("ok") or raises ("raises"); stat tells whether pdf_path.stat() returns *)
(* or raises.  A handle is named after the step that opened it.            *)

\* the steps of extract_pdf_content, in order
StepAfter(v, step) ==
    IF step = "text" THEN (IF v = "full" THEN "figures" ELSE "tables")
    ELSE IF step = "figures" THEN "tables"
    ELSE IF step = "tables" THEN "metadata"
    ELSE "returned"

\* the handles open after a step that opened handle h without a with block:
\* doc.close() is the last statement of the try block, so it is skipped when
\* a statement before it raised; the handle is then closed only when the
\* garbage collector finalises the object, before or after the return
AfterUnscoped(open, h, raised) ==
    IF raised THEN {open, open \cup {h}} ELSE {open}

\* _extract_text_content of both extractors: "with pdfplumber.open(pdf_path)
\* as pdf" closes the handle on every way out of the block
HandleExtractText ==
    /\ hpc = "text"
    /\ handles' = handles
    /\ hpc' = StepAfter(hvariant, "text")
    /\ UNCHANGED <<hvariant, hdoc>>
    /\ UNCHANGED <<extractVars, storeVars, batchVars, chunkVars, cleanVars, segVars>>

\* _extract_tables of both extractors, with the same with block
HandleExtractTables ==
    /\ hpc = "tables"
    /\ handles' = handles
    /\ hpc' = StepAfter(hvariant, "tables")
    /\ UNCHANGED <<hvariant, hdoc>>
    /\ UNCHANGED <<extractVars, storeVars, batchVars, chunkVars, cleanVars, segVars>>

\* _extract_figures of PDFContentExtractor: fitz.open, the loop over the
\* pages, doc.close()
HandleExtractFigures ==
    /\ hpc = "figures"
    /\ handles' \in
           IF hdoc.state # "ok" THEN {handles}
           ELSE AfterUnscoped(handles, "figures",
                    \E k \in 1..Len(hdoc.images) : hdoc.images[k] = "raises")
    /\ hpc' = StepAfter(hvariant, "figures")
    /\ UNCHANGED <<hvariant, hdoc>>
    /\ UNCHANGED <<extractVars, storeVars, batchVars, chunkVars, cleanVars, segVars>>

\* _extract_metadata of PDFContentExtractor: fitz.open, metadata.update with
\* pdf_path.stat(), doc.close(); _extract_basic_metadata of
\* SimplePDFContentExtractor: stat(), then a with block
HandleExtractMetadata ==
    /\ hpc = "metadata"
    /\ handles' \in
           IF hvariant = "simple" \/ hdoc.state # "ok" THEN {handles}
           ELSE AfterUnscoped(handles, "metadata", hdoc.stat = "raises")
    /\ hpc' = StepAfter(hvariant, "metadata")
    /\ UNCHANGED <<hvariant, hdoc>>
    /\ UNCHANGED <<extractVars, storeVars, batchVars, chunkVars, cleanVars, segVars>>

----------------------------------------------------------------------------
(* Specification of the chunker over all small texts and parameters *)

ChunkAlphabet == {"a", " ", "."}

Texts == UNION {[1..n -> ChunkAlphabet] : n \in 0..MaxLen}

InitLocals ==
    /\ pc = "call"
    /\ start = 0
    /\ chunk_index = 1
    /\ chunks = <<>>
    /\ last_end = 0
    /\ iters = 0

\* extract_pdf_content, the store and the batch are not running
IdleExtract ==
    /\ doc = [state |-> "missing", pages |-> <<>>]
    /\ result = <<>>
    /\ epc = "idle"

IdleStore ==
    /\ files = <<>>
    /\ fs = <<>>
    /\ store_ret = <<>>
    /\ verification = <<>>
    /\ calls = 0
    /\ damaged = {}
    /\ retrieved = <<>>
    /\ workers = <<>>

IdleBatch ==
    /\ papers = <<>>
    /\ paper_i = 0
    /\ processed_papers = <<>>
    /\ successful_extractions = 0
    /\ failed_extractions = 0
    /\ output_file = <<>>
    /\ bpc = "idle"

IdleHandles ==
    /\ hvariant = "simple"
    /\ hdoc = [state |-> "corrupt", images |-> <<>>, stat |-> "ok"]
    /\ handles = {}
    /\ hpc = "idle"

IdleIO == IdleExtract /\ IdleStore /\ IdleBatch /\ IdleHandles

\* the cleaner and the segmenter are not running
IdleClean ==
    /\ raw = <<>>
    /\ cleaned = <<>>
    /\ recleaned = <<>>
    /\ cpc = "idle"

IdleSegment ==
    /\ svariant = "_extract_sections"
    /\ stext = <<>>
    /\ sections = <<>>
    /\ spc = "idle"

\* the chunker is not running
IdleChunk ==
    /\ variant = "_create_text_chunks"
    /\ text = <<>>
    /\ chunk_size = DefaultChunkSize
    /\ overlap = DefaultOverlap
    /\ pc = "idle"
    /\ start = 0
    /\ chunk_index = 1
    /\ chunks = <<>>
    /\ last_end = 0
    /\ iters = 0

Init ==
    /\ variant \in Variants
    /\ text \in Texts
    /\ chunk_size \in (-1)..MaxChunk
    /\ overlap \in 0..MaxOverlap
    /\ InitLocals
    /\ IdleClean
    /\ IdleSegment
    /\ IdleIO

Next == ChunkCall \/ ChunkLoop

Spec == Init /\ [][Next]_vars

----------------------------------------------------------------------------
(* Specification of the 2500-character scenario: default parameters, the   *)
(* only sentence terminators near positions 990 and 1980                   *)

ScenarioText(p1, p2) ==
    [i \in 1..ScenarioLen |-> IF i - 1 \in {p1, p2} THEN "." ELSE "a"]

InitScenario ==
    /\ variant \in Variants
    /\ \E p1 \in (990 - Near)..(990 + Near), p2 \in (1980 - Near)..(1980 + Near) :
           text = ScenarioText(p1, p2)
    /\ chunk_size = DefaultChunkSize
    /\ overlap = DefaultOverlap
    /\ InitLocals
    /\ IdleClean
    /\ IdleSegment
    /\ IdleIO

SpecScenario == InitScenario /\ [][Next]_vars

----------------------------------------------------------------------------
(* Specification of the cleaner over all small texts *)

CleanAlphabet == {"a", " ", "\n", "NUL", "FF", "VT", "LDQUO", "ENDASH"}

RawTexts == UNION {[1..n -> CleanAlphabet] : n \in 0..MaxCleanLen}

InitClean ==
    /\ raw \in RawTexts
    /\ cleaned = <<>>
    /\ recleaned = <<>>
    /\ cpc = "call"
    /\ IdleChunk
    /\ IdleSegment
    /\ IdleIO

NextClean == CleanOnce \/ CleanTwice

SpecClean == InitClean /\ [][NextClean]_vars

----------------------------------------------------------------------------
(* Specification of the segmenter: free-form texts of a few lines, and the *)
(* documents "Abstract", body lines, "References", body lines              *)

HeadingAbstract == <<"A", "b", "s", "t", "r", "a", "c", "t">>
HeadingReferences == <<"R", "e", "f", "e", "r", "e", "n", "c", "e", "s">>

SegLines ==
    { HeadingAbstract, HeadingReferences,
      <<"B", "i", "b", "l", "i", "o", "g", "r", "a", "p", "h", "y">>,
      <<"m", "e", "t", "h", "o", "d", "o", "l", "o", "g", "y", " ", "x">>,
      <<"b", "1">>, <<" ", "r", "1">>, <<>> }

\* the body lines <<p, "1">>, ..., <<p, "n">>
BodyLines(p, n) == [i \in 1..n |-> <<p, ToString(i)>>]

ScenarioDoc(k, m) ==
    Join(<<HeadingAbstract>> \o BodyLines("b", k)
            \o <<HeadingReferences>> \o BodyLines("r", m), <<"\n">>)

FreeDocs ==
    UNION {{Join(ls, <<"\n">>) : ls \in [1..n -> SegLines]} : n \in 1..MaxLines}

ScenarioDocs == {ScenarioDoc(k, m) : k \in 1..MaxBody, m \in 1..MaxBody}

HeadingBibliography == <<"B", "i", "b", "l", "i", "o", "g", "r", "a", "p", "h", "y">>

\* a document in which the same section heading occurs twice
RepeatDoc(k, m) ==
    Join(<<HeadingBibliography>> \o BodyLines("b", k)
            \o <<HeadingBibliography>> \o BodyLines("r", m), <<"\n">>)

RepeatDocs == {RepeatDoc(k, m) : k \in 1..MaxBody, m \in 1..MaxBody}

InitSegment ==
    /\ svariant \in SegVariants
    /\ stext \in FreeDocs \cup ScenarioDocs \cup RepeatDocs
    /\ sections = <<>>
    /\ spc = "call"
    /\ IdleChunk
    /\ IdleClean
    /\ IdleIO

NextSegment == SegmentCall

SpecSegment == InitSegment /\ [][NextSegment]_vars

----------------------------------------------------------------------------
(* Specification of extract_pdf_content over all small documents *)

PageTextKinds ==
    { [text_kind |-> "none",   text |-> <<>>],
      [text_kind |-> "text",   text |-> <<>>],
      [text_kind |-> "text",   text |-> <<"a", " ", "b", " ">>],
      [text_kind |-> "raises", text |-> <<>>] }

TableData1 == << << <<" ", "x">>, NoneCell >> >>
TableBlank == << << <<>>, NoneCell >>, << NoneCell, <<>> >> >>
TableSpace == << << <<" ">>, <<>> >> >>

PageTableKinds ==
    { [tables_kind |-> "ok",     tables |-> <<>>],
      [tables_kind |-> "ok",     tables |-> <<TableData1>>],
      [tables_kind |-> "ok",     tables |-> <<TableBlank, TableData1>>],
      [tables_kind |-> "ok",     tables |-> <<TableSpace>>],
      [tables_kind |-> "raises", tables |-> <<>>] }

Pages ==
    { [text_kind |-> a.text_kind, text |-> a.text,
       tables_kind |-> b.tables_kind, tables |-> b.tables] :
          a \in PageTextKinds, b \in PageTableKinds }

Docs ==
    { [state |-> st, pages |-> <<>>] : st \in {"missing", "corrupt", "vanishes"} }
        \cup { [state |-> "ok", pages |-> ps] :
                  ps \in UNION {[1..n -> Pages] : n \in 0..MaxPages} }

InitExtract ==
    /\ doc \in Docs
    /\ result = NoneValue
    /\ epc = "call"
    /\ IdleStore
    /\ IdleBatch
    /\ IdleHandles
    /\ IdleChunk
    /\ IdleClean
    /\ IdleSegment

NextExtract == ExtractCall

SpecExtract == InitExtract /\ [][NextExtract]_vars

----------------------------------------------------------------------------
(* Specification of the blob store: sequential store and verify calls *)

Contents == {<<"x">>, <<"y">>}

Paths == 1..MaxFiles

FileStates ==
    {[exists |-> FALSE, bytes |-> <<>>]}
        \cup {[exists |-> TRUE, bytes |-> b] : b \in Contents}

\* the metadata argument: the keys store_papers_with_pdfs passes, and a
\* caller that passes a file_hash of its own
Metadatas ==
    { [paper_id |-> "p"],
      [paper_id |-> "p", file_hash |-> <<"forged">>],
      [paper_id |-> "p", file_hash |-> <<>>] }

\* the ids a caller can hold: ObjectIds and the strings store_pdf_file returns
FileIds ==
    {ObjectId(n) : n \in 1..MaxCalls} \cup {Str(ObjectId(n)) : n \in 1..MaxCalls}

InitStore ==
    /\ files \in [Paths -> FileStates]
    /\ fs = <<>>
    /\ store_ret = NoneValue
    /\ verification = NoneValue
    /\ calls = 0
    /\ damaged = {}
    /\ retrieved = <<>>
    /\ workers = <<>>
    /\ IdleExtract
    /\ IdleBatch
    /\ IdleHandles
    /\ IdleChunk
    /\ IdleClean
    /\ IdleSegment

NextStore ==
    \/ \E p \in Paths, metadata \in Metadatas : StorePdfFile(p, metadata)
    \/ \E i \in 1..MaxCalls, bytes \in Contents : BlobDecays(i, bytes)
    \/ \E file_id \in FileIds : VerifyFileIntegrity(file_id)
    \/ \E file_id \in FileIds : RetrievePdfFile(file_id)

SpecStore == InitStore /\ [][NextStore]_vars

----------------------------------------------------------------------------
(* Specification of process_papers_from_json over all small index files *)

TextPage ==
    [text_kind |-> "text", text |-> <<"a", " ", "b", " ">>,
     tables_kind |-> "ok", tables |-> <<>>]

RaisingPage ==
    [text_kind |-> "raises", text |-> <<>>, tables_kind |-> "raises", tables |-> <<>>]

\* the files the papers of an index point to
PaperDocs ==
    { [state |-> st, pages |-> <<>>] : st \in {"missing", "corrupt", "vanishes"} }
        \cup { [state |-> "ok", pages |-> ps] : ps \in {<<TextPage>>, <<RaisingPage>>} }

\* the paper number i of an index: without a PDF, or with one of the files
PapersAt(i) ==
    {[title |-> i, file_found |-> FALSE, file_path |-> [state |-> "missing", pages |-> <<>>]]}
        \cup {[title |-> i, file_found |-> TRUE, file_path |-> d] : d \in PaperDocs}

Indexes ==
    UNION { {ps \in [1..n -> UNION {PapersAt(i) : i \in 1..n}] :
                \A i \in 1..n : ps[i].title = i} : n \in 0..MaxPapers }

InitBatch ==
    /\ papers \in Indexes
    /\ paper_i = 0
    /\ processed_papers = <<>>
    /\ successful_extractions = 0
    /\ failed_extractions = 0
    /\ output_file = <<>>
    /\ bpc = "loop"
    /\ IdleExtract
    /\ IdleStore
    /\ IdleHandles
    /\ IdleChunk
    /\ IdleClean
    /\ IdleSegment

NextBatch == ProcessPaper \/ WriteOutput

SpecBatch == InitBatch /\ [][NextBatch]_vars

----------------------------------------------------------------------------
(* Specification of the blob store under parallel store_pdf_file calls *)

InitParallel ==
    /\ files \in [Paths -> FileStates]
    /\ workers \in [1..MaxWorkers ->
                       {[pc |-> "start", path |-> p, ret |-> NoneValue] : p \in Paths}]
    /\ fs = <<>>
    /\ store_ret = NoneValue
    /\ verification = NoneValue
    /\ calls = 0
    /\ damaged = {}
    /\ retrieved = <<>>
    /\ IdleExtract
    /\ IdleBatch
    /\ IdleHandles
    /\ IdleChunk
    /\ IdleClean
    /\ IdleSegment

NextParallel ==
    \/ \E w \in 1..MaxWorkers : WorkerLookup(w)
    \/ \E w \in 1..MaxWorkers : WorkerPut(w)

SpecParallel == InitParallel /\ [][NextParallel]_vars

----------------------------------------------------------------------------
(* Specification of the handles of one extract_pdf_content call *)

HandleDocs ==
    { [state |-> st, images |-> im, stat |-> sr] :
          st \in {"ok", "corrupt"},
          im \in UNION {[1..n -> {"ok", "raises"}] : n \in 0..MaxPages},
          sr \in {"ok", "raises"} }

InitHandles ==
    /\ hvariant \in {"simple", "full"}
    /\ hdoc \in HandleDocs
    /\ handles = {}
    /\ hpc = "text"
    /\ IdleExtract
    /\ IdleStore
    /\ IdleBatch
    /\ IdleChunk
    /\ IdleClean
    /\ IdleSegment

NextHandles ==
    \/ HandleExtractText
    \/ HandleExtractFigures
    \/ HandleExtractTables
    \/ HandleExtractMetadata

SpecHandles == InitHandles /\ [][NextHandles]_vars

----------------------------------------------------------------------------
(* Claims about the chunker *)

ValidParams == chunk_size > 0 /\ 0 <= overlap /\ overlap < chunk_size

IsDict == variant = "_create_text_chunks"

\* C1: for every text T and chunk_size with len(T) <= chunk_size (T = ""
\* included) the chunker returns exactly one chunk: chunk_index 1, chunk_id
\* 'chunk_1', text equal to T untrimmed, start_char 0, end_char len(T).
C1_ShortTextOneChunk ==
    (pc = "returned" /\ Len(text) <= chunk_size) =>
        /\ Len(chunks) = 1
        /\ ChunkText(variant, chunks[1]) = text
        /\ IsDict => /\ chunks[1].chunk_index = 1
                     /\ chunks[1].chunk_id = "chunk_1"
                     /\ chunks[1].start_char = 0
                     /\ chunks[1].end_char = Len(text)

\* a short text with leading whitespace was returned as one chunk
C1_Witness ==
    /\ pc = "returned"
    /\ Len(text) = chunk_size
    /\ Len(text) >= 2
    /\ text[1] = " "
    /\ Len(chunks) = 1

\* C2 (as claimed): for len(T) > chunk_size and 0 <= overlap < chunk_size the
\* half-open spans [start_char, end_char) of the returned chunks union to
\* exactly [0, len(T)): every position is covered and no span reaches below 0
\* or beyond len(T).
C2_SpansCoverExactly ==
    (pc = "returned" /\ IsDict /\ Len(text) > chunk_size /\ ValidParams) =>
        /\ \A p \in 0..(Len(text) - 1) :
               \E i \in 1..Len(chunks) :
                   chunks[i].start_char <= p /\ p < chunks[i].end_char
        /\ \A i \in 1..Len(chunks) :
               chunks[i].start_char >= 0 /\ chunks[i].end_char <= Len(text)

\* C3 (as claimed): with overlap >= chunk_size or chunk_size <= 0 the call
\* ends in a ConfigurationError before any loop iteration runs and before any
\* chunk is produced.
C3_InvalidParamsRejected ==
    (overlap >= chunk_size \/ chunk_size <= 0) =>
        /\ pc \in {"call", "ConfigurationError"}
        /\ iters = 0
        /\ chunks = <<>>

\* positions (0-based) of the sentence terminators of the text
TermPos == {p \in 0..(Len(text) - 1) : text[p + 1] \in Terminators}

\* C4 (as claimed): with chunk_size 1000 and overlap 200 the 2500-character
\* text whose only terminators are near 990 and 1980 is split into exactly 3
\* chunks with chunk_index 1, 2, 3, and every chunk end with a terminator in
\* its lookback window is snapped to just after that terminator.
C4_ScenarioThreeChunks ==
    pc = "returned" =>
        /\ Len(chunks) = 3
        /\ IsDict =>
             \A i \in 1..Len(chunks) :
                 /\ chunks[i].chunk_index = i
                 /\ LET s   == chunks[i].start_char
                        win == {p \in TermPos : p > s + chunk_size - LookBack
                                                /\ p <= s + chunk_size}
                    IN  (s + chunk_size < Len(text) /\ win # {}) =>
                            chunks[i].end_char = Max(win) + 1

\* C5 (as claimed): no chunk returned by the chunker has empty text, for every
\* input text and every chunk_size / overlap.
C5_NoEmptyChunk ==
    \A i \in 1..Len(chunks) : ChunkText(variant, chunks[i]) # <<>>

\* C5 (amended): a chunk with empty text is returned only for the empty input
\* text, as the single chunk of the short-text path.
C5_NoEmptyChunkUnlessEmptyInput ==
    \A i \in 1..Len(chunks) :
        ChunkText(variant, chunks[i]) = <<>> => (text = <<>> /\ Len(chunks) = 1)

\* the loop skipped a whitespace-only slice and returned chunks
C5_Witness ==
    /\ pc = "returned"
    /\ text # <<>>
    /\ iters > Len(chunks)
    /\ Len(chunks) >= 1

\* C6: in every chunk list the i-th chunk has chunk_index = i and chunk_id =
\* 'chunk_<i>', also when a whitespace-only slice is skipped inside the loop.
C6_IndicesConsecutive ==
    IsDict =>
        \A i \in 1..Len(chunks) :
            /\ chunks[i].chunk_index = i
            /\ chunks[i].chunk_id = "chunk_" \o ToString(i)

\* a chunk was appended after an iteration that skipped its slice
C6_Witness ==
    /\ pc = "returned"
    /\ IsDict
    /\ \E i \in 1..(Len(chunks) - 1) :
           chunks[i + 1].start_char > chunks[i].end_char - overlap

\* C7 (as claimed): every chunk emitted has at most chunk_size characters,
\* end_char - start_char <= chunk_size, snapped or not.
C7_ChunkAtMostChunkSize ==
    ValidParams =>
        \A i \in 1..Len(chunks) :
            IF IsDict
            THEN chunks[i].end_char - chunks[i].start_char <= chunk_size
            ELSE Len(chunks[i]) <= chunk_size

----------------------------------------------------------------------------
(* Claims about the cleaner *)

\* C8 (as claimed): the cleaner is idempotent, clean(clean(T)) = clean(T) for
\* every text T, also when T has null, form-feed or vertical-tab characters
\* between whitespace.
C8_CleanIdempotent == cpc = "twice" => recleaned = cleaned

\* C9 (as claimed): clean(T) is in normal form: no run of two or more
\* whitespace characters, no newline, no null / form-feed / vertical-tab
\* character, no typographic quotation mark and no en or em dash.
C9_CleanNormalForm ==
    cpc \in {"once", "twice"} =>
        /\ \A i \in 1..(Len(cleaned) - 1) :
               ~(cleaned[i] \in Whitespace /\ cleaned[i + 1] \in Whitespace)
        /\ \A i \in 1..Len(cleaned) :
               cleaned[i] \notin {"\n", "NUL", "FF", "VT", "LDQUO", "RDQUO",
                                  "ENDASH", "EMDASH"}

----------------------------------------------------------------------------
(* Claims about the segmenter *)

\* C10 (as claimed): segmenting "Abstract", body lines, "References", body
\* lines yields a section map whose 'abstract' entry holds exactly the body
\* lines after "Abstract", whose 'references' entry holds exactly the body
\* lines after "References", and in which 'unknown' is empty or absent.
C10_AbstractReferencesScenario ==
    spc = "returned" =>
        \A k \in 1..MaxBody, m \in 1..MaxBody :
            stext = ScenarioDoc(k, m) =>
                /\ DictHas(sections, "abstract")
                /\ DictGet(sections, "abstract") = Join(BodyLines("b", k), <<"\n">>)
                /\ DictHas(sections, "references")
                /\ DictGet(sections, "references") = Join(BodyLines("r", m), <<"\n">>)
                /\ DictHas(sections, "unknown") => DictGet(sections, "unknown") = <<>>

\* the lines of a text, each stripped, blank lines left out
StrippedLines(t) ==
    LET ls == SplitOn(t, "\n")
    IN  SelectSeq([i \in 1..Len(ls) |-> Strip(ls[i])], LAMBDA l : l # <<>>)

\* C11 (as claimed): segmentation is lossless: the values of the section map,
\* concatenated in encounter order, give back the input's sequence of lines
\* (blank lines and surrounding whitespace aside); no line is dropped or
\* duplicated.
C11_SegmentationLossless ==
    spc = "returned" =>
        StrippedLines(Join([i \in 1..Len(sections) |-> sections[i].value],
                           <<"\n">>))
            = StrippedLines(stext)

----------------------------------------------------------------------------
(* Claims about extract_pdf_content *)

\* the value is a record built in the try block
IsSuccessRecord(r) ==
    /\ "summary" \in DOMAIN r
    /\ r.summary.extraction_success = TRUE

\* the value is the minimal record built in the except block
IsFailureRecord(r) ==
    /\ DOMAIN r = {"file_path", "file_name", "extraction_timestamp",
                   "extraction_success", "error"}
    /\ r.extraction_success = FALSE

\* C12 (as claimed): whenever the document cannot be opened (missing or
\* corrupt), extract_pdf_content returns the minimal failure record, never a
\* success-shaped record and never no record
C12_UnopenableGivesFailureRecord ==
    (epc = "returned" /\ doc.state \in {"missing", "corrupt"})
        => IsFailureRecord(result)

\* every page of the document yields no text (None or the empty string)
NoTextAnywhere(d) ==
    /\ d.state = "ok"
    /\ \A k \in 1..Len(d.pages) :
           d.pages[k].text_kind \in {"none", "text"} /\ d.pages[k].text = <<>>

\* C13: for a readable document in which every page yields no text, the
\* result is a success record with full_text "", exactly one chunk, of
\* chunk_index 1 and empty text, and summary.total_words 0
C13_NoTextDocument ==
    (epc = "returned" /\ NoTextAnywhere(doc)) =>
        /\ IsSuccessRecord(result)
        /\ result.text_content.full_text = <<>>
        /\ Len(result.text_chunks) = 1
        /\ result.text_chunks[1].chunk_index = 1
        /\ result.text_chunks[1].text = <<>>
        /\ result.summary.total_chunks = 1
        /\ result.summary.total_words = 0

\* a document of two pages without text has been extracted
C13_Witness ==
    /\ epc = "returned"
    /\ NoTextAnywhere(doc)
    /\ Len(doc.pages) = 2
    /\ doc.pages[1].text_kind = "none"
    /\ doc.pages[2].text_kind = "text"
    /\ IsSuccessRecord(result)

\* text extraction or table extraction raises on some page
SomePageRaises(d) ==
    \E k \in 1..Len(d.pages) :
        d.pages[k].text_kind = "raises" \/ d.pages[k].tables_kind = "raises"

\* C14: while the file exists, extract_pdf_content returns a record with
\* summary.extraction_success = true, also when text extraction or table
\* extraction raised on some page
C14_PageFailureKeepsSuccess ==
    (epc = "returned" /\ doc.state \in {"ok", "corrupt"})
        => IsSuccessRecord(result)

\* a document with a page whose text extraction raises and a page whose table
\* extraction raises has been extracted
C14_Witness ==
    /\ epc = "returned"
    /\ doc.state = "ok"
    /\ \E k \in 1..Len(doc.pages) : doc.pages[k].text_kind = "raises"
    /\ \E k \in 1..Len(doc.pages) : doc.pages[k].tables_kind = "raises"
    /\ IsSuccessRecord(result)

\* C15 (as claimed): text extraction produces exactly one page record per
\* physical page, in page order with page_number 1..N, with an empty-text
\* record for a page without text, and goes on with the following pages
C15_OnePageRecordPerPage ==
    (epc = "returned" /\ doc.state = "ok" /\ IsSuccessRecord(result)) =>
        LET recs == result.text_content.pages_text
        IN  /\ Len(recs) = Len(doc.pages)
            /\ \A k \in 1..Len(recs) :
                   /\ recs[k].page_number = k
                   /\ ~PageTruthy(doc.pages[k]) => recs[k].text = <<>>

\* some cell of the grid is non-empty after trimming whitespace
HasContent(t) ==
    \E r \in 1..Len(t) : \E c \in 1..Len(t[r]) :
        t[r][c] # NoneCell /\ Strip(t[r][c]) # <<>>

\* the grid of table i of page k has a record among the tables
HasRecord(tables, k, i) ==
    \E j \in 1..Len(tables) :
        tables[j].page_number = k /\ tables[j].table_index = i

\* C16 (as claimed): a candidate grid is retained if and only if one of its
\* cells is non-empty after trimming whitespace, so no retained table record
\* has only empty cells in its data
C16_TableRetainedIffContent ==
    (epc = "returned" /\ doc.state = "ok" /\ IsSuccessRecord(result)
         /\ ~SomePageRaises(doc)) =>
        /\ \A k \in 1..Len(doc.pages) :
               \A i \in 1..Len(doc.pages[k].tables) :
                   HasRecord(result.tables, k, i)
                       <=> HasContent(doc.pages[k].tables[i])
        /\ \A j \in 1..Len(result.tables) :
               \E r \in 1..Len(result.tables[j].data) :
                   \E c \in 1..Len(result.tables[j].data[r]) :
                       result.tables[j].data[r][c] # <<>>

\* C17 (as claimed): if table extraction raises on page k, only the tables of
\* page k are omitted: the tables with content of every other page, before
\* and after page k, are in the returned list
C17_TableFailureOmitsOnlyThatPage ==
    (epc = "returned" /\ doc.state = "ok" /\ IsSuccessRecord(result)) =>
        \A k \in 1..Len(doc.pages) :
            doc.pages[k].tables_kind = "ok" =>
                \A i \in 1..Len(doc.pages[k].tables) :
                    HasContent(doc.pages[k].tables[i])
                        => HasRecord(result.tables, k, i)

\* C26 (as claimed): the cleaner runs before the section segmenter and the
\* chunk builder, and both receive the same cleaned full text: the sections
\* and the chunks of the result are those of the cleaned full_text
C26_CleanerRunsFirst ==
    (/\ epc = "returned"
     /\ doc.state = "ok"
     /\ IsSuccessRecord(result)
     /\ TextStop(doc.pages) > Len(doc.pages)) =>
        LET cleaned_text == result.text_content.full_text
        IN  /\ result.text_chunks = CreateTextChunks(cleaned_text).chunks
            /\ result.text_content.sections
                   = ExtractSections("_extract_sections", cleaned_text)

----------------------------------------------------------------------------
(* Claims about the document-parsing handles *)

\* C21 (as claimed): every document-parsing handle opened while processing a
\* document is closed before extract_pdf_content returns, also when an
\* extraction step raised
C21_HandlesClosedAtReturn == hpc = "returned" => handles = {}

----------------------------------------------------------------------------
(* Claims about the blob store *)

\* C18 (as claimed): after any sequence of sequential store_pdf_file calls
\* the store holds at most one blob per content digest: two stores of
\* byte-identical content give one blob
C18_OneBlobPerDigest ==
    damaged = {} =>
        \A i, j \in 1..Len(fs) :
            Sha256(fs[i].data) = Sha256(fs[j].data) => i = j

\* C19 (as claimed): verify_file_integrity reports hash_match false whenever
\* the digest recomputed from the stored bytes differs from the recorded
\* digest, and true when they agree
C19_VerifyReportsMismatch ==
    "hash_match" \in DOMAIN verification =>
        verification.hash_match =
            (IF verification.stored_hash = verification.current_hash
             THEN "True" ELSE "False")


\* C30 (as claimed): for every blob written by store_pdf_file the recorded
\* metadata.file_hash is the SHA-256 digest of the stored bytes, whatever
\* keys the caller's metadata has
C30_RecordedDigestIsContentDigest ==
    \A i \in 1..Len(fs) :
        fs[i]._id \notin damaged => fs[i].metadata.file_hash = Sha256(fs[i].data)

\* C29 (as claimed): for every file that store_pdf_file stored, calling
\* retrieve_pdf_file with the id that store_pdf_file returned yields exactly
\* the bytes that were stored
C29_StoreRetrieveRoundTrip ==
    \A i \in 1..Len(fs) :
        (/\ "file_id" \in DOMAIN retrieved
         /\ retrieved.file_id = Str(fs[i]._id)
         /\ fs[i]._id \notin damaged)
            => retrieved.content = fs[i].data

\* C24 (as claimed): under any interleaving of parallel store_pdf_file calls
\* on files with byte-identical content, the store ends with at most one
\* blob for that digest and all calls return the same blob id
C24_ParallelStoresShareOneBlob ==
    (\A w \in DOMAIN workers : workers[w].pc = "done") =>
        /\ \A i, j \in 1..Len(fs) : fs[i].data = fs[j].data => i = j
        /\ \A v, w \in DOMAIN workers :
               (/\ files[workers[v].path].exists
                /\ files[workers[w].path].exists
                /\ files[workers[v].path].bytes = files[workers[w].path].bytes)
                   => workers[v].ret = workers[w].ret

----------------------------------------------------------------------------
(* Claims about process_papers_from_json *)

\* C20: the output of process_papers_from_json has exactly one record per
\* input paper, in input order, whether the paper has no PDF, its extraction
\* failed or it succeeded; a failed extraction does not keep the papers
\* after it from being processed and written
C20_OneRecordPerPaper ==
    /\ bpc = "loop" => Len(processed_papers) = paper_i
    /\ bpc = "written" =>
           /\ Len(output_file) = Len(papers)
           /\ \A i \in 1..Len(papers) :
                  /\ output_file[i].title = papers[i].title
                  /\ output_file[i].file_path = papers[i].file_path
                  /\ "pdf_content" \in DOMAIN output_file[i]

\* an index of a paper without PDF, a paper whose extraction failed and a
\* paper whose extraction gave a record has been processed and written
C20_Witness ==
    /\ bpc = "written"
    /\ Len(papers) = 3
    /\ ~papers[1].file_found
    /\ papers[2].file_found /\ papers[2].file_path.state = "vanishes"
    /\ IsFailureRecord(output_file[2].pdf_content)
    /\ papers[3].file_found /\ IsSuccessRecord(output_file[3].pdf_content)
    /\ Len(output_file) = 3

----------------------------------------------------------------------------
(* Further claims about the chunker *)

\* an iteration of the while loop that ran to its end
LoopIteration == pc = "loop" /\ iters' = iters + 1 /\ pc' # "raised"

\* C23 (as claimed): for valid parameters start strictly increases on every
\* iteration of the chunking loop, so the loop terminates
C23_StartStrictlyIncreases ==
    [][(ValidParams /\ LoopIteration) => start' > start]_vars

\* the positions p of the text, 0-based, that hold a sentence terminator and
\* lie in the lookback window: max(s + cs - 100, s) < p <= s + cs
WindowTerminators(t, s, cs) ==
    {p \in 0..(Len(t) - 1) :
        /\ p <= s + cs
        /\ p > s + cs - 100
        /\ p > s
        /\ t[p + 1] \in {".", "!", "?"}}

C28_NoChunkAfterTheEnd ==
    [][(ValidParams /\ LoopIteration /\ iters >= 1 /\ Len(chunks') > Len(chunks))
          => last_end < Len(text)]_vars

----------------------------------------------------------------------------
(* Further claims about the segmenter *)

\* C25 (as claimed): section text accumulates: when a section is matched
\* more than once, its final value has the lines of every occurrence
C25_SectionTextAccumulates ==
    \A k, m \in 1..MaxBody :
        (spc = "returned" /\ stext = RepeatDoc(k, m)) =>
            /\ DictHas(sections, "references")
            /\ StrippedLines(DictGet(sections, "references"))
                   = BodyLines("b", k) \o BodyLines("r", m)

----------------------------------------------------------------------------
(* Further claims about process_papers_from_json *)

\* C22 (as claimed): a paper with a PDF is marked content_extracted = true
\* and counted in successful_extractions exactly when extract_pdf_content
\* returned a success-shaped record for it, and marked false and counted in
\* failed_extractions exactly when it returned a failure record or nothing
C22_SuccessCountedAsSuccess ==
    bpc = "written" =>
        LET withPdf == {i \in 1..Len(papers) : papers[i].file_found}
            good    == {i \in withPdf : IsSuccessRecord(output_file[i].pdf_content)}
        IN  /\ \A i \in withPdf : output_file[i].content_extracted = (i \in good)
            /\ successful_extractions = Cardinality(good)
            /\ failed_extractions = Cardinality(withPdf \ good)

====
